---------------------------- MODULE Spec2Model ----------------------------
(***************************************************************************)
(* A model of chromeos-config/cros_config_host_py/libcros_config_host.py:  *)
(* the CrosConfig node graph, the phandle index, path traversal with the   *)
(* "shares" indirection, merged properties, firmware URIs and touch        *)
(* firmware file names.                                                    *)
(*                                                                         *)
(* Strings are sequences of one-character strings, so that split, join,    *)
(* slicing, prefix/suffix tests, upper() and format() are computed the way *)
(* the Python code computes them.  An OrderedDict is the sequence of its    *)
(* items in insertion order.  A Python call ends in a returned value or in *)
(* a raised exception; both are recorded as an outcome record.             *)
(***************************************************************************)
EXTENDS Integers, Sequences, FiniteSets, TLC

VARIABLES
    nodes,            \* the decoded tree: node id -> [name, path, subnodes, properties]
    phandle_to_node,  \* CrosConfig.phandle_to_node: phandle integer -> node id
    models,           \* CrosConfig.models.values(): the model node ids, in order
    call,             \* the operation last invoked, with its arguments
    result            \* what that operation returned or raised

vars == <<nodes, phandle_to_node, models, call, result>>

-----------------------------------------------------------------------------
(* Bounds of the model *)

\* number of nodes of the decoded tree
NumNodes == 4
\* number of distinct text values a property can have
NumValues == 2
\* longest relative path (in characters) handed to the path operations
MaxPathLen == 5
\* longest template (in pieces: a character or a {key} placeholder)
MaxPieces == 2

-----------------------------------------------------------------------------
(* Literal strings of the source *)

SHARES == <<"s", "h", "a", "r", "e", "s">>
REG == <<"r", "e", "g">>
PHANDLE == <<"p", "h", "a", "n", "d", "l", "e">>
FIRMWARE == <<"f", "i", "r", "m", "w", "a", "r", "e">>
TOUCH == <<"t", "o", "u", "c", "h">>
TOUCH_TYPE == <<"t", "o", "u", "c", "h", "-", "t", "y", "p", "e">>
FIRMWARE_BIN == <<"f", "i", "r", "m", "w", "a", "r", "e", "-", "b", "i", "n">>
FIRMWARE_SYMLINK == <<"f", "i", "r", "m", "w", "a", "r", "e", "-", "s", "y", "m", "l", "i", "n", "k">>
BCS_OVERLAY == <<"b", "c", "s", "-", "o", "v", "e", "r", "l", "a", "y">>
MODEL == <<"M", "O", "D", "E", "L">>
IMAGE_SUFFIX == <<"-", "i", "m", "a", "g", "e">>
BCS_SCHEME == <<"b", "c", "s", ":", "/", "/">>
URI_HEAD == <<"g", "s", ":", "/", "/", "c", "h", "r", "o", "m", "e", "o", "s", "-", "b", "i", "n", "a", "r", "i", "e", "s", "/", "H", "O", "M", "E", "/", "b", "c", "s", "-">>
URI_OVERLAY == <<"/", "o", "v", "e", "r", "l", "a", "y", "-">>
URI_BASE == <<"/", "c", "h", "r", "o", "m", "e", "o", "s", "-", "b", "a", "s", "e", "/", "c", "h", "r", "o", "m", "e", "o", "s", "-", "f", "i", "r", "m", "w", "a", "r", "e", "-">>

-----------------------------------------------------------------------------
(* Python values and outcomes *)

None == [kind |-> "None"]
NodeRef(n) == [kind |-> "Node", node |-> n]
Raise(e) == [kind |-> "raise", exc |-> e]
Raised(r) == r.kind = "raise"

Range(s) == {s[i] : i \in DOMAIN s}

\* str.split(sep): the pieces between the separators, empty ones included
RECURSIVE split(_, _)
split(s, sep) ==
    IF \A i \in DOMAIN s : s[i] # sep
    THEN <<s>>
    ELSE LET i == CHOOSE j \in DOMAIN s :
                      s[j] = sep /\ \A k \in 1..(j - 1) : s[k] # sep
         IN  <<SubSeq(s, 1, i - 1)>> \o split(SubSeq(s, i + 1, Len(s)), sep)

\* sep.join(parts)
RECURSIVE join(_, _)
join(sep, parts) ==
    IF parts = <<>> THEN <<>>
    ELSE IF Len(parts) = 1 THEN parts[1]
    ELSE parts[1] \o <<sep>> \o join(sep, Tail(parts))

\* s.endswith(suffix), s.startswith(prefix)
endswith(s, suffix) ==
    /\ Len(suffix) <= Len(s)
    /\ SubSeq(s, Len(s) - Len(suffix) + 1, Len(s)) = suffix
startswith(s, prefix) ==
    /\ Len(prefix) <= Len(s)
    /\ SubSeq(s, 1, Len(prefix)) = prefix

\* s[n:]
slice_from(s, n) == SubSeq(s, n + 1, Len(s))

\* an OrderedDict is the sequence of its items [name, value]
keys(d) == {d[i].name : i \in DOMAIN d}
key_list(d) == [i \in DOMAIN d |-> d[i].name]
item(d, k) == d[CHOOSE i \in DOMAIN d : d[i].name = k]
\* d.get(k)
get(d, k) == IF k \in keys(d) THEN item(d, k) ELSE None
\* d[k] = v: replaces the value in place, or appends a new item
setitem(d, k, v) ==
    IF k \in keys(d)
    THEN [i \in DOMAIN d |-> IF d[i].name = k THEN [name |-> k, value |-> v] ELSE d[i]]
    ELSE Append(d, [name |-> k, value |-> v])

-----------------------------------------------------------------------------
(* Property *)

\* the value of one byte of a property's raw value (a character of a text
\* value is a byte below 128)
ByteVal(b) ==
    CASE b = "00" -> 0 [] b = "01" -> 1 [] b = "02" -> 2 [] b = "03" -> 3
      [] OTHER -> 127

\* a phandle cell: the four big-endian bytes of the phandle integer
Cell(n) == <<"00", "00", "00", CHOOSE b \in {"00", "01", "02", "03"} : ByteVal(b) = n>>

\* Property.GetPhandle(): the value's first cell as an integer
GetPhandle(prop) ==
    LET v == prop.value
    IN  ((ByteVal(v[1]) * 256 + ByteVal(v[2])) * 256 + ByteVal(v[3])) * 256 + ByteVal(v[4])

-----------------------------------------------------------------------------
(* Node *)

\* the child of node self named part (part in self.subnodes)
has_subnode(self, part) == \E c \in Range(nodes[self].subnodes) : nodes[c].name = part
subnode(self, part) == CHOOSE c \in Range(nodes[self].subnodes) : nodes[c].name = part

\* FollowPhandle looking the phandle up with dict.get: None for a phandle
\* without an index entry
FollowPhandle_Get(self, prop_name) ==
    LET prop == get(nodes[self].properties, prop_name)
    IN  IF prop = None THEN None
        ELSE IF GetPhandle(prop) \in DOMAIN phandle_to_node
             THEN NodeRef(phandle_to_node[GetPhandle(prop)])
             ELSE None

\* Node.FollowPhandle(prop_name)
FollowPhandle(self, prop_name) ==
    LET prop == get(nodes[self].properties, prop_name)
    IN  IF prop = None THEN None
        ELSE IF GetPhandle(prop) \in DOMAIN phandle_to_node
             THEN NodeRef(phandle_to_node[GetPhandle(prop)])
             ELSE Raise("KeyError")

RECURSIVE ChildNodeFromPath(_, _)

\* ChildNodeFromPath keeping the empty pieces of the split path
ChildNodeFromPath_KeepEmpty(self, relative_path) ==
    IF relative_path = <<>> THEN NodeRef(self)
    ELSE
    LET path_parts == split(relative_path, "/")
        part == path_parts[1]
        rest == join("/", Tail(path_parts))
    IN  IF has_subnode(self, part)
        THEN ChildNodeFromPath(subnode(self, part), rest)
        ELSE IF SHARES \in keys(nodes[self].properties)
        THEN LET shared == FollowPhandle(self, SHARES)
             IN  IF Raised(shared) THEN shared
                 ELSE IF shared = None THEN Raise("AttributeError")
                 ELSE IF has_subnode(shared.node, part)
                 THEN ChildNodeFromPath(subnode(shared.node, part), rest)
                 ELSE Raise("UnboundLocalError")
        ELSE None

\* Node.ChildNodeFromPath(relative_path)
ChildNodeFromPath(self, relative_path) ==
    IF relative_path = <<>> THEN NodeRef(self)
    ELSE
    LET path_parts == SelectSeq(split(relative_path, "/"), LAMBDA p : p # <<>>)
    IN  IF path_parts = <<>> THEN NodeRef(self)
        ELSE
        LET part == path_parts[1]
            rest == join("/", Tail(path_parts))
        IN  IF has_subnode(self, part)
            THEN ChildNodeFromPath(subnode(self, part), rest)
            ELSE IF SHARES \in keys(nodes[self].properties)
            THEN LET shared == FollowPhandle(self, SHARES)
                 IN  IF Raised(shared) THEN shared
                     ELSE IF shared = None THEN Raise("AttributeError")
                     ELSE IF has_subnode(shared.node, part)
                     THEN ChildNodeFromPath(subnode(shared.node, part), rest)
                     \* sub_node was never assigned
                     ELSE Raise("UnboundLocalError")
            ELSE None

\* Node.ChildPropertyFromPath(relative_path, property_name)
ChildPropertyFromPath(self, relative_path, property_name) ==
    LET child_node == ChildNodeFromPath(self, relative_path)
    IN  IF Raised(child_node) THEN child_node
        ELSE IF child_node = None THEN None
        ELSE
        LET props == nodes[child_node.node].properties
            prop == get(props, property_name)
        IN  IF prop = None /\ SHARES \in keys(props)
            THEN LET shared == FollowPhandle(child_node.node, SHARES)
                 IN  IF Raised(shared) THEN shared
                     ELSE IF shared = None THEN Raise("AttributeError")
                     ELSE get(nodes[shared.node].properties, property_name)
            ELSE prop

\* the loop of GetMergedProperties over the linked node's properties
RECURSIVE AddLinked(_, _)
AddLinked(props, linked) ==
    IF linked = <<>> THEN props
    ELSE LET p == Head(linked)
         IN  AddLinked(IF p.name \notin keys(props) /\ ~endswith(p.name, PHANDLE)
                       THEN setitem(props, p.name, p.value)
                       ELSE props,
                       Tail(linked))

\* Node.GetMergedProperties(phandle_prop)
GetMergedProperties(self, phandle_prop) ==
    LET props == SelectSeq(nodes[self].properties,
                           LAMBDA prop : prop.name \notin {phandle_prop, REG})
        phandle_node == FollowPhandle(self, phandle_prop)
    IN  IF Raised(phandle_node) THEN phandle_node
        ELSE IF phandle_node = None THEN [kind |-> "dict", items |-> props]
        ELSE [kind |-> "dict",
              items |-> AddLinked(props, nodes[phandle_node.node].properties)]

-----------------------------------------------------------------------------
(* Model *)

\* the string concatenation done by uri_format.format(bcs=, model=, fname=)
uri_format(bcs, model, fname) ==
    URI_HEAD \o bcs \o URI_OVERLAY \o bcs \o URI_BASE \o model \o <<"/">> \o fname

\* Model.GetFirmwareUris()
GetFirmwareUris(self) ==
    LET firmware == ChildNodeFromPath(self, <<"/">> \o FIRMWARE)
    IN  IF Raised(firmware) THEN firmware
        ELSE IF firmware = None THEN [kind |-> "list", items |-> <<>>]
        ELSE
        LET merged == GetMergedProperties(firmware.node, SHARES)
        IN  IF Raised(merged) THEN merged
            ELSE IF BCS_OVERLAY \notin keys(merged.items)
            THEN [kind |-> "list", items |-> <<>>]
            ELSE
            LET props == merged.items
                bcs_overlay == slice_from(item(props, BCS_OVERLAY).value, 8)
                valid_images == SelectSeq(props,
                    LAMBDA it : endswith(it.name, IMAGE_SUFFIX)
                                /\ startswith(it.value, BCS_SCHEME))
            IN  [kind |-> "list",
                 items |-> [i \in DOMAIN valid_images |->
                     uri_format(bcs_overlay, nodes[self].name,
                                slice_from(valid_images[i].value, 6))]]

\* str.replace(c, ''): every occurrence of the character removed
replace_none(s, c) == SelectSeq(s, LAMBDA x : x # c)

\* template.format(props, **props) over templates made of text, "{{", "}}"
\* and {key} fields (no conversion, format spec, attribute, index or number
\* in a field): the text with every field replaced, or the first error met,
\* left to right.  An empty field {} is positional argument 0, the dict itself.
RECURSIVE format(_, _)
format(template, props) ==
    IF template = <<>> THEN [kind |-> "str", s |-> <<>>]
    ELSE
    LET c == Head(template)
        emit(text, rest) ==
            LET r == format(rest, props)
            IN  IF Raised(r) THEN r ELSE [kind |-> "str", s |-> text \o r.s]
    IN  IF c = "{"
        THEN IF Len(template) >= 2 /\ template[2] = "{"
             THEN emit(<<"{">>, slice_from(template, 2))
             ELSE IF \A j \in 2..Len(template) : template[j] # "}"
             THEN Raise("ValueError")      \* unmatched '{' in format
             ELSE
             LET j == CHOOSE k \in 2..Len(template) :
                          template[k] = "}" /\ \A m \in 2..(k - 1) : template[m] # "}"
                 field == SubSeq(template, 2, j - 1)
             IN  IF field = <<>> THEN emit(<<"<repr(props)>">>, slice_from(template, j))
                 ELSE IF field \in keys(props)
                 THEN emit(item(props, field).value, slice_from(template, j))
                 ELSE [kind |-> "raise", exc |-> "KeyError", message |-> field]
        ELSE IF c = "}"
        THEN IF Len(template) >= 2 /\ template[2] = "}"
             THEN emit(<<"}">>, slice_from(template, 2))
             ELSE Raise("ValueError")      \* Single '}' encountered
        ELSE emit(<<c>>, Tail(template))

\* GetTouchFilename swallowing the KeyError: the template comes back as it is
GetTouchFilename_Swallow(node_path, props, fname_prop) ==
    IF fname_prop \notin keys(props) THEN Raise("KeyError")
    ELSE
    LET template == replace_none(item(props, fname_prop).value, "$")
        r == format(template, props)
    IN  IF Raised(r) /\ r.exc = "KeyError"
        THEN [kind |-> "str", s |-> template]
        ELSE r

\* Model.GetTouchFilename(node_path, props, fname_prop)
GetTouchFilename(node_path, props, fname_prop) ==
    IF fname_prop \notin keys(props) THEN Raise("KeyError")
    ELSE
    LET template == replace_none(item(props, fname_prop).value, "$")
        r == format(template, props)
    IN  IF Raised(r) /\ r.exc = "KeyError"
        THEN [kind |-> "raise", exc |-> "ValueError", node_path |-> node_path,
              template |-> template, properties |-> key_list(props),
              lacks |-> r.message]
        ELSE r

\* str.upper() on the letters
LOWER == <<"a", "b", "c", "d", "e", "f", "g", "h", "i", "j", "k", "l", "m",
           "n", "o", "p", "q", "r", "s", "t", "u", "v", "w", "x", "y", "z">>
UPPER == <<"A", "B", "C", "D", "E", "F", "G", "H", "I", "J", "K", "L", "M",
           "N", "O", "P", "Q", "R", "S", "T", "U", "V", "W", "X", "Y", "Z">>
upper(s) ==
    [i \in DOMAIN s |->
        IF \E k \in DOMAIN LOWER : LOWER[k] = s[i]
        THEN UPPER[CHOOSE k \in DOMAIN LOWER : LOWER[k] = s[i]]
        ELSE s[i]]

TouchFile(firmware, symlink) == [firmware |-> firmware, symlink |-> symlink]

\* the loop of Model.GetTouchFirmwareFiles over the remaining devices; files
\* is the dict built so far (device name -> TouchFile)
RECURSIVE TouchFilesLoop(_, _, _)
TouchFilesLoop(self, devices, files) ==
    IF devices = <<>> THEN [kind |-> "files", files |-> files]
    ELSE
    LET device == Head(devices)
        merged == GetMergedProperties(device, TOUCH_TYPE)
    IN  IF Raised(merged) THEN merged
        ELSE
        LET props == setitem(merged.items, MODEL, upper(nodes[self].name))
            firmware == GetTouchFilename(nodes[self].path, props, FIRMWARE_BIN)
            symlink == GetTouchFilename(nodes[self].path, props, FIRMWARE_SYMLINK)
        IN  IF Raised(firmware) THEN firmware
            ELSE IF Raised(symlink) THEN symlink
            ELSE TouchFilesLoop(self, Tail(devices),
                     [n \in DOMAIN files \cup {nodes[device].name} |->
                         IF n = nodes[device].name
                         THEN TouchFile(firmware.s, symlink.s)
                         ELSE files[n]])

\* Model.GetTouchFirmwareFiles()
ModelGetTouchFirmwareFiles(self) ==
    LET touch == ChildNodeFromPath(self, <<"/">> \o TOUCH)
    IN  IF Raised(touch) THEN touch
        ELSE IF touch = None THEN Raise("AttributeError")
        ELSE TouchFilesLoop(self, nodes[touch.node].subnodes, <<>>)

-----------------------------------------------------------------------------
(* CrosConfig *)

\* the characters of the model in code point order
ASCII == <<"$", "-", ".", "/", "0", "1", "2", "3", ":", "<", ">">> \o UPPER
         \o <<"_">> \o LOWER \o <<"{", "}">>
ord(c) == CHOOSE i \in DOMAIN ASCII : ASCII[i] = c

\* a < b on strings: lexicographic by code point
RECURSIVE str_lt(_, _)
str_lt(a, b) ==
    IF b = <<>> THEN FALSE
    ELSE IF a = <<>> THEN TRUE
    ELSE IF Head(a) = Head(b) THEN str_lt(Tail(a), Tail(b))
    ELSE ord(Head(a)) < ord(Head(b))

\* the records as the set yields them, not sorted
sorted_by_firmware_Unsorted(seq) == seq

\* sorted(seq, key=lambda files: files.firmware): a stable sort, so records
\* with equal keys keep the order they had in seq
RECURSIVE sorted_by_firmware(_)
sorted_by_firmware(seq) ==
    IF seq = <<>> THEN <<>>
    ELSE
    LET done == sorted_by_firmware(SubSeq(seq, 1, Len(seq) - 1))
        x == seq[Len(seq)]
        \* x goes after every record whose key is not greater than its own
        n == Cardinality({i \in DOMAIN done : ~str_lt(x.firmware, done[i].firmware)})
    IN  SubSeq(done, 1, n) \o <<x>> \o SubSeq(done, n + 1, Len(done))

\* the loop of CrosConfig.GetTouchFirmwareFiles over the models: file_set
\* once every model's records are added, or the first error raised
RECURSIVE FileSet(_)
FileSet(model_list) ==
    IF model_list = <<>> THEN [kind |-> "set", items |-> {}]
    ELSE
    LET r == ModelGetTouchFirmwareFiles(Head(model_list))
    IN  IF Raised(r) THEN r
        ELSE
        LET rest == FileSet(Tail(model_list))
        IN  IF Raised(rest) THEN rest
            ELSE [kind |-> "set",
                  items |-> {r.files[n] : n \in DOMAIN r.files} \cup rest.items]

\* the sequences in which iterating over the set s can yield its elements
Iterations(s) ==
    {it \in [1..Cardinality(s) -> s] : \A x \in s : \E i \in DOMAIN it : it[i] = x}

\* CrosConfig.GetTouchFirmwareFiles(), for the models in the order model_list
\* and iteration the order in which sorted() iterates over file_set
CrosConfigGetTouchFirmwareFiles(model_list, iteration) ==
    LET file_set == FileSet(model_list)
    IN  IF Raised(file_set) THEN file_set
        ELSE [kind |-> "list", items |-> sorted_by_firmware(iteration)]

-----------------------------------------------------------------------------
(* The decoded tree handed to CrosConfig.__init__ *)

\* the elements of a set of integers as an increasing sequence
RECURSIVE SortedSeq(_)
SortedSeq(S) ==
    IF S = {} THEN <<>>
    ELSE LET m == CHOOSE x \in S : \A y \in S : x <= y
         IN  <<m>> \o SortedSeq(S \ {m})

\* fdt_node.path
RECURSIVE PathOf(_, _, _)
PathOf(parent, name, i) ==
    IF parent[i] = 0 THEN <<"/">> \o name[i]
    ELSE PathOf(parent, name, parent[i]) \o <<"/">> \o name[i]

\* Node.__init__ on every node of a tree given by its parent map (0: a node
\* directly under /chromeos/models), its names and its property lists
MakeNodes(parent, name, props) ==
    [i \in DOMAIN parent |->
        [name |-> name[i],
         path |-> PathOf(parent, name, i),
         subnodes |-> SortedSeq({j \in DOMAIN parent : parent[j] = i}),
         properties |-> props[i]]]

\* names are unique among the children of one node
UniqueSiblings(parent, name) ==
    \A i, j \in DOMAIN parent : (i # j /\ parent[i] = parent[j]) => name[i] # name[j]

Prop(n, v) == [name |-> n, value |-> v]
\* the property list holding, in order, the listed properties that are present
Props(list) == SelectSeq(list, LAMBDA p : p # None)

\* fdt.Fdt.Scan(): every node with a "phandle" property, under its phandle
ScanPhandles(ns) ==
    LET marked == {i \in DOMAIN ns : PHANDLE \in keys(ns[i].properties)}
        phandles == {GetPhandle(item(ns[i].properties, PHANDLE)) : i \in marked}
    IN  [p \in phandles |->
            CHOOSE i \in marked : GetPhandle(item(ns[i].properties, PHANDLE)) = p]

-----------------------------------------------------------------------------
(* Traversal: a model N (node 1), a node L (node 2) that carries phandle 1, *)
(* and further nodes nested below them.  Nodes 1 and 3 may have a "shares" *)
(* property, holding phandle 1 or phandle 2, which no node carries.        *)

X == <<"x">>
NodeIds == 1..NumNodes
PathChars == {"/", "a"}
Paths == UNION {[1..k -> PathChars] : k \in 0..MaxPathLen}
PhandleProps == {SHARES, TOUCH_TYPE}

PathParents ==
    {f \in [NodeIds -> 0..(NumNodes - 1)] :
        /\ f[1] = 0 /\ f[2] = 0
        /\ \A i \in NodeIds : i > 2 => f[i] \in 1..(i - 1)}
PathNames ==
    {f \in [NodeIds -> {<<"a">>, <<"b">>}] :
        f[1] = <<"a">> /\ f[2] = <<"b">> /\ f[3] = <<"a">>}

Idle == [op |-> "idle"]

Init ==
    \E parent \in PathParents, name \in PathNames,
       sh \in [{1, 3} -> 0..2], hx \in [{2, 3} -> BOOLEAN] :
        /\ UniqueSiblings(parent, name)
        /\ nodes = MakeNodes(parent, name,
              [i \in NodeIds |->
                  Props(<<IF i = 2 THEN Prop(PHANDLE, Cell(1)) ELSE None,
                          IF i \in {1, 3} /\ sh[i] # 0
                          THEN Prop(SHARES, Cell(sh[i])) ELSE None,
                          IF i \in {2, 3} /\ hx[i]
                          THEN Prop(X, PathOf(parent, name, i)) ELSE None>>)])
        /\ phandle_to_node = ScanPhandles(nodes)
        /\ models = <<1>>
        /\ call = Idle
        /\ result = None

\* one query on the loaded configuration returns; the next may start
Return ==
    /\ call # Idle
    /\ call' = Idle
    /\ result' = None
    /\ UNCHANGED <<nodes, phandle_to_node, models>>

DoChildNodeFromPath ==
    /\ call = Idle
    /\ \E self \in Range(models), relative_path \in Paths :
        /\ call' = [op |-> "ChildNodeFromPath", self |-> self,
                    relative_path |-> relative_path]
        /\ result' = ChildNodeFromPath(self, relative_path)
    /\ UNCHANGED <<nodes, phandle_to_node, models>>

\* the caller resolves the rest of a path on the node the first call returned
\* (nothing to resolve on None)
ThenChildNodeFromPath ==
    /\ call.op = "ChildNodeFromPath"
    /\ ~Raised(result)
    /\ \E rest \in Paths :
        /\ Len(call.relative_path) + 1 + Len(rest) <= MaxPathLen
        /\ call' = [op |-> "Then", self |-> call.self, first |-> call.relative_path,
                    relative_path |-> rest]
        /\ result' = IF result = None THEN None
                     ELSE ChildNodeFromPath(result.node, rest)
    /\ UNCHANGED <<nodes, phandle_to_node, models>>

DoChildPropertyFromPath ==
    /\ call = Idle
    /\ \E self \in Range(models), relative_path \in Paths, property_name \in {X} :
        /\ call' = [op |-> "ChildPropertyFromPath", self |-> self,
                    relative_path |-> relative_path, property_name |-> property_name]
        /\ result' = ChildPropertyFromPath(self, relative_path, property_name)
    /\ UNCHANGED <<nodes, phandle_to_node, models>>

DoFollowPhandle ==
    /\ call = Idle
    /\ \E self \in DOMAIN nodes, prop_name \in PhandleProps :
        /\ call' = [op |-> "FollowPhandle", self |-> self, prop_name |-> prop_name]
        /\ result' = FollowPhandle(self, prop_name)
    /\ UNCHANGED <<nodes, phandle_to_node, models>>

DoGetMergedProperties ==
    /\ call = Idle
    /\ \E self \in DOMAIN nodes, phandle_prop \in PhandleProps :
        /\ call' = [op |-> "GetMergedProperties", self |-> self,
                    phandle_prop |-> phandle_prop]
        /\ result' = GetMergedProperties(self, phandle_prop)
    /\ UNCHANGED <<nodes, phandle_to_node, models>>

Next ==
    \/ DoChildNodeFromPath
    \/ ThenChildNodeFromPath
    \/ DoChildPropertyFromPath
    \/ DoFollowPhandle
    \/ DoGetMergedProperties
    \/ Return

Spec == Init /\ [][Next]_vars

-----------------------------------------------------------------------------
(* Merging: a node N (node 1) and the node L (node 2) that carries phandle *)
(* 1.  N may link to L, or to phandle 2 that no node carries, through      *)
(* "shares" and through "touch-type"; both nodes may have "reg", and L may *)
(* have properties named like N's link properties.                         *)

A == <<"a">>
B == <<"b">>
\* the text values a property can have
Values == {<<"v", ASCII[4 + i]>> : i \in 1..NumValues}
Maybe(S) == {None} \cup S
\* the property named n with one of the values of vs, or no such property
MaybeProp(n, vs) == Maybe({Prop(n, v) : v \in vs})

InitMerge ==
    \E nreg \in MaybeProp(REG, Values), na \in MaybeProp(A, Values),
       nshares \in MaybeProp(SHARES, {Cell(1), Cell(2)}),
       ntouch \in MaybeProp(TOUCH_TYPE, {Cell(1)}),
       lreg \in MaybeProp(REG, Values), la \in MaybeProp(A, Values),
       lb \in MaybeProp(B, Values),
       lshares \in MaybeProp(SHARES, {Cell(1)}),
       ltouch \in MaybeProp(TOUCH_TYPE, {Cell(1)}) :
        /\ nodes = MakeNodes([i \in 1..2 |-> 0], <<A, B>>,
              <<Props(<<nreg, nshares, na, ntouch>>),
                Props(<<lreg, la, ltouch, lb, lshares, Prop(PHANDLE, Cell(1))>>)>>)
        /\ phandle_to_node = ScanPhandles(nodes)
        /\ models = <<1>>
        /\ call = Idle
        /\ result = None

NextMerge ==
    \/ DoFollowPhandle
    \/ DoGetMergedProperties
    \/ Return

SpecMerge == InitMerge /\ [][NextMerge]_vars

-----------------------------------------------------------------------------
(* Firmware: a model M (node 1) with a child (node 3), the node L (node 2) *)
(* that carries phandle 1 with a child (node 4); either child may be the   *)
(* "firmware" node.  M and the children may have a "shares" property.      *)

EC_IMAGE == <<"e", "c">> \o IMAGE_SUFFIX
OVERLAY == <<"o", "v", "e", "r", "l", "a", "y", "-">>
\* what a "bcs-overlay" and an "-image" property can hold
OverlayValues == {OVERLAY \o v : v \in Values}
ImageValues == {BCS_SCHEME \o <<"e">>, <<"e">>}

InitFirmware ==
    \E name3 \in {FIRMWARE, A}, name4 \in {FIRMWARE, A},
       shares1 \in MaybeProp(SHARES, {Cell(1), Cell(2)}),
       shares3 \in MaybeProp(SHARES, {Cell(1)}),
       overlay \in [2..4 -> MaybeProp(BCS_OVERLAY, OverlayValues)],
       image \in [{2, 3} -> MaybeProp(EC_IMAGE, ImageValues)] :
        /\ nodes = MakeNodes(<<0, 0, 1, 2>>, <<A, B, name3, name4>>,
              <<Props(<<shares1>>),
                Props(<<Prop(PHANDLE, Cell(1)), image[2], overlay[2]>>),
                Props(<<shares3, overlay[3], image[3]>>),
                Props(<<overlay[4]>>)>>)
        /\ phandle_to_node = ScanPhandles(nodes)
        /\ models = <<1>>
        /\ call = Idle
        /\ result = None

DoGetFirmwareUris ==
    /\ call = Idle
    /\ \E self \in Range(models) :
        /\ call' = [op |-> "GetFirmwareUris", self |-> self]
        /\ result' = GetFirmwareUris(self)
    /\ UNCHANGED <<nodes, phandle_to_node, models>>

NextFirmware ==
    \/ DoGetFirmwareUris
    \/ DoGetMergedProperties
    \/ Return

SpecFirmware == InitFirmware /\ [][NextFirmware]_vars

-----------------------------------------------------------------------------
(* Touch firmware: the models a (node 1) and b (node 2), each with a       *)
(* "touch" node (3, 4); the devices d and e of model a (5, 6) and d of     *)
(* model b (7); all devices link through "touch-type" to node 8, which     *)
(* holds the file name templates.  A device may have a property k.         *)

K == <<"k">>
D == <<"d">>
E == <<"e">>
TouchParents == <<0, 0, 1, 2, 3, 3, 4, 0>>
TouchNames == <<A, B, TOUCH, TOUCH, D, E, D, TOUCH_TYPE>>
Devices == {5, 6, 7}

\* the pieces of a template: a character, a "$", a {key} field
Pieces == {<<"x">>, <<"$">>, <<"{">> \o MODEL \o <<"}">>, <<"{">> \o K \o <<"}">>}
RECURSIVE Concat(_)
Concat(seqs) == IF seqs = <<>> THEN <<>> ELSE Head(seqs) \o Concat(Tail(seqs))
Templates == {Concat(f) : f \in UNION {[1..n -> Pieces] : n \in 0..MaxPieces}}
SymlinkTemplates == {<<"y">>, <<"{">> \o MODEL \o <<"}">>, <<"$", "{">> \o K \o <<"}">>}

InitTouch ==
    \E bin \in Templates, symlink \in SymlinkTemplates,
       k \in [Devices -> MaybeProp(K, {A, B})] :
        /\ nodes = MakeNodes(TouchParents, TouchNames,
              [i \in 1..8 |->
                  IF i \in Devices
                  THEN Props(<<Prop(REG, Cell(i - 5)), Prop(TOUCH_TYPE, Cell(1)), k[i]>>)
                  ELSE IF i = 8
                  THEN <<Prop(FIRMWARE_BIN, bin), Prop(FIRMWARE_SYMLINK, symlink),
                         Prop(PHANDLE, Cell(1))>>
                  ELSE <<>>])
        /\ phandle_to_node = ScanPhandles(nodes)
        /\ models = <<1, 2>>
        /\ call = Idle
        /\ result = None

\* the props Model.GetTouchFirmwareFiles hands to GetTouchFilename for a device
TouchProps(self, device) ==
    setitem(GetMergedProperties(device, TOUCH_TYPE).items, MODEL, upper(nodes[self].name))

DoGetTouchFilename ==
    /\ call = Idle
    /\ \E self \in Range(models), fname_prop \in {FIRMWARE_BIN, FIRMWARE_SYMLINK} :
       \E device \in Range(nodes[subnode(self, TOUCH)].subnodes) :
        /\ call' = [op |-> "GetTouchFilename", node_path |-> nodes[self].path,
                    props |-> TouchProps(self, device), fname_prop |-> fname_prop]
        /\ result' = GetTouchFilename(nodes[self].path, TouchProps(self, device),
                                      fname_prop)
    /\ UNCHANGED <<nodes, phandle_to_node, models>>

DoModelGetTouchFirmwareFiles ==
    /\ call = Idle
    /\ \E self \in Range(models) :
        /\ call' = [op |-> "Model.GetTouchFirmwareFiles", self |-> self]
        /\ result' = ModelGetTouchFirmwareFiles(self)
    /\ UNCHANGED <<nodes, phandle_to_node, models>>

\* the order in which the set is iterated is not fixed by the language
DoCrosConfigGetTouchFirmwareFiles ==
    /\ call = Idle
    /\ LET file_set == FileSet(models)
       IN  \E iteration \in IF Raised(file_set) THEN {<<>>} ELSE Iterations(file_set.items) :
            /\ call' = [op |-> "CrosConfig.GetTouchFirmwareFiles",
                        model_list |-> models, iteration |-> iteration]
            /\ result' = CrosConfigGetTouchFirmwareFiles(models, iteration)
    /\ UNCHANGED <<nodes, phandle_to_node, models>>

\* the same models with the same touch files, loaded in another order
AgainCrosConfigGetTouchFirmwareFiles ==
    /\ call.op = "CrosConfig.GetTouchFirmwareFiles"
    /\ ~Raised(result)
    /\ \E model_list \in Iterations(Range(models)) \ {call.model_list} :
       \E iteration \in Iterations(FileSet(model_list).items) :
        /\ call' = [op |-> "Again", model_list |-> model_list,
                    iteration |-> iteration, first |-> result]
        /\ result' = CrosConfigGetTouchFirmwareFiles(model_list, iteration)
    /\ UNCHANGED <<nodes, phandle_to_node, models>>

NextTouch ==
    \/ DoGetTouchFilename
    \/ DoModelGetTouchFirmwareFiles
    \/ DoCrosConfigGetTouchFirmwareFiles
    \/ AgainCrosConfigGetTouchFirmwareFiles
    \/ Return

SpecTouch == InitTouch /\ [][NextTouch]_vars

-----------------------------------------------------------------------------
(* What the claims speak of *)

\* the non-empty segments of a path: the maximal runs of characters other than "/"
RECURSIVE Segments(_)
Segments(p) ==
    IF p = <<>> THEN <<>>
    ELSE IF Head(p) = "/" THEN Segments(Tail(p))
    ELSE LET n == CHOOSE k \in 1..Len(p) :
                      /\ \A i \in 1..k : p[i] # "/"
                      /\ (k = Len(p) \/ p[k + 1] = "/")
         IN  <<SubSeq(p, 1, n)>> \o Segments(SubSeq(p, n + 1, Len(p)))

IsSegment(p) == p # <<>> /\ \A i \in DOMAIN p : p[i] # "/"

HasProp(n, k) == k \in keys(nodes[n].properties)
PhandleOf(n, q) == GetPhandle(item(nodes[n].properties, q))
\* node n has a property q whose phandle has no entry in the phandle index
Dangling(n, q) == HasProp(n, q) /\ PhandleOf(n, q) \notin DOMAIN phandle_to_node
\* node n has a property q that links it to a node
Linked(n, q) == HasProp(n, q) /\ PhandleOf(n, q) \in DOMAIN phandle_to_node
LinkOf(n, q) == phandle_to_node[PhandleOf(n, q)]
\* every phandle of the tree is in the phandle index
AllIndexed == \A n \in DOMAIN nodes, q \in PhandleProps : ~Dangling(n, q)

\* where the segments lead from node n as section 4.2 of the specification
\* describes it: a direct child, else a child of the node "shares" links
\* to, else nowhere (0)
RECURSIVE Resolve(_, _)
Resolve(n, segs) ==
    IF segs = <<>> THEN n
    ELSE IF has_subnode(n, Head(segs))
    THEN Resolve(subnode(n, Head(segs)), Tail(segs))
    ELSE IF Linked(n, SHARES) /\ has_subnode(LinkOf(n, SHARES), Head(segs))
    THEN Resolve(subnode(LinkOf(n, SHARES), Head(segs)), Tail(segs))
    ELSE 0

\* resolving the segments from node n has to follow a "shares" link whose
\* phandle is not in the index
RECURSIVE MeetsDangling(_, _)
MeetsDangling(n, segs) ==
    /\ segs # <<>>
    /\ IF has_subnode(n, Head(segs))
       THEN MeetsDangling(subnode(n, Head(segs)), Tail(segs))
       ELSE \/ Dangling(n, SHARES)
            \/ /\ Linked(n, SHARES)
               /\ has_subnode(LinkOf(n, SHARES), Head(segs))
               /\ MeetsDangling(subnode(LinkOf(n, SHARES), Head(segs)), Tail(segs))

\* C3: in a tree whose phandles are all indexed, ChildNodeFromPath never
\* raises, and returns None whenever some segment of the path names neither a
\* child of the current node nor a child of the node its "shares" links to.
C3_AbsentNotError ==
    (call.op = "ChildNodeFromPath" /\ AllIndexed) =>
        /\ ~Raised(result)
        /\ Resolve(call.self, Segments(call.relative_path)) = 0 => result = None

\* C4: ChildPropertyFromPath(p, k) returns the resolved node's own property
\* k, else the property k of the node its "shares" links to, else None; and
\* None when p does not resolve.
C4_PropertyLookup ==
    (call.op = "ChildPropertyFromPath" /\ AllIndexed) =>
        LET c == ChildNodeFromPath(call.self, call.relative_path)
            k == call.property_name
        IN  IF c.kind = "Node"
            THEN IF HasProp(c.node, k)
                 THEN result = item(nodes[c.node].properties, k)
                 ELSE IF Linked(c.node, SHARES) /\ HasProp(LinkOf(c.node, SHARES), k)
                 THEN result = item(nodes[LinkOf(c.node, SHARES)].properties, k)
                 ELSE result = None
            ELSE result = None

\* the path s1/s2/.../sn made of a first segment and the rest
FullPath(first, rest) == IF rest = <<>> THEN first ELSE first \o <<"/">> \o rest

\* the path without its leading, trailing and doubled slashes
RECURSIVE SlashJoined(_)
SlashJoined(segs) ==
    IF segs = <<>> THEN <<>>
    ELSE IF Len(segs) = 1 THEN segs[1]
    ELSE segs[1] \o <<"/">> \o SlashJoined(Tail(segs))
Squeezed(p) == SlashJoined(Segments(p))

C10_MissingReference ==
    /\ call.op = "FollowPhandle" =>
           result = IF ~HasProp(call.self, call.prop_name) THEN None
                    ELSE IF Dangling(call.self, call.prop_name) THEN Raise("KeyError")
                    ELSE NodeRef(LinkOf(call.self, call.prop_name))
    /\ (call.op \in {"ChildNodeFromPath", "ChildPropertyFromPath"}
        /\ MeetsDangling(call.self, Segments(call.relative_path))) =>
           result = Raise("KeyError")
    /\ call.op = "ChildPropertyFromPath" =>
           LET c == Resolve(call.self, Segments(call.relative_path))
           IN  (/\ ~MeetsDangling(call.self, Segments(call.relative_path))
                /\ c # 0
                /\ ~HasProp(c, call.property_name)
                /\ Dangling(c, SHARES)) => result = Raise("KeyError")
    /\ (call.op = "GetMergedProperties" /\ Dangling(call.self, call.phandle_prop)) =>
           result = Raise("KeyError")

\* a lookup that reaches a node through a resolved "shares" link and then
\* needs that node's own link, whose phandle is not indexed
C10_Witness ==
    /\ call.op = "ChildPropertyFromPath"
    /\ Linked(call.self, SHARES)
    /\ Len(Segments(call.relative_path)) >= 1
    /\ ~MeetsDangling(call.self, Segments(call.relative_path))
    /\ Resolve(call.self, Segments(call.relative_path)) # 0
    /\ result = Raise("KeyError")

\* the value a property list or a merged mapping holds for key k
ValueOf(d, k) == item(d, k).value

\* C1: each key of GetMergedProperties(q) that is a property of N other than
\* q and "reg" has N's value, every other key has the linked node's value;
\* the linked node only fills keys missing from N; without a property q the
\* result is exactly N's own properties minus q and "reg".
C1_SelfWins ==
    (call.op = "GetMergedProperties" /\ ~Raised(result)) =>
        LET n == call.self
            q == call.phandle_prop
            own == nodes[n].properties
        IN  /\ \A k \in keys(result.items) :
                IF k \in keys(own) /\ k \notin {q, REG}
                THEN ValueOf(result.items, k) = ValueOf(own, k)
                ELSE /\ Linked(n, q)
                     /\ HasProp(LinkOf(n, q), k)
                     /\ ValueOf(result.items, k) = ValueOf(nodes[LinkOf(n, q)].properties, k)
            \* no key that N has is filled from the linked node
            /\ \A k \in keys(result.items) \cap keys(own) :
                ValueOf(result.items, k) = ValueOf(own, k)
            /\ ~HasProp(n, q) =>
                result.items = SelectSeq(own, LAMBDA prop : prop.name \notin {q, REG})

\* C2: the mapping GetMergedProperties(q) returns holds neither the key
\* "reg" nor the key q.
C2_NoRegNoPhandleProp ==
    (call.op = "GetMergedProperties" /\ ~Raised(result)) =>
        /\ REG \notin keys(result.items)
        /\ call.phandle_prop \notin keys(result.items)

\* C8: in a tree whose phandles are all indexed, GetFirmwareUris returns the
\* empty list, and raises nothing, when "/firmware" does not resolve under
\* the model or the firmware node's merged properties lack "bcs-overlay".
C8_NoFirmwareNoUris ==
    (call.op = "GetFirmwareUris" /\ AllIndexed) =>
        LET firmware == Resolve(call.self, <<FIRMWARE>>)
        IN  (\/ firmware = 0
             \/ BCS_OVERLAY \notin keys(GetMergedProperties(firmware, SHARES).items))
                => result = [kind |-> "list", items |-> <<>>]

\* the keys a template references, in order: the text of its {key} fields
RECURSIVE Referenced(_)
Referenced(t) ==
    IF t = <<>> THEN <<>>
    ELSE IF Head(t) = "{"
    THEN LET j == CHOOSE i \in 2..Len(t) : t[i] = "}" /\ \A m \in 2..(i - 1) : t[m] # "}"
         IN  <<SubSeq(t, 2, j - 1)>> \o Referenced(SubSeq(t, j + 1, Len(t)))
    ELSE Referenced(Tail(t))

\* the template with every "$" dropped and every {key} field replaced by the
\* value props has for key
RECURSIVE Filled(_, _)
Filled(t, props) ==
    IF t = <<>> THEN <<>>
    ELSE IF Head(t) = "$" THEN Filled(Tail(t), props)
    ELSE IF Head(t) = "{"
    THEN LET j == CHOOSE i \in 2..Len(t) : t[i] = "}" /\ \A m \in 2..(i - 1) : t[m] # "}"
         IN  ValueOf(props, SubSeq(t, 2, j - 1)) \o Filled(SubSeq(t, j + 1, Len(t)), props)
    ELSE <<Head(t)>> \o Filled(Tail(t), props)

\* the template property fname_prop of props references a key props lacks
LacksKey(props, fname_prop) ==
    \E i \in DOMAIN Referenced(ValueOf(props, fname_prop)) :
        Referenced(ValueOf(props, fname_prop))[i] \notin keys(props)

DevicesOf(self) == Range(nodes[subnode(self, TOUCH)].subnodes)

\* C9: a template that references a key missing from the properties makes
\* GetTouchFilename raise a ValueError carrying the node path, the template,
\* the property names and the missing key, and Model.GetTouchFirmwareFiles
\* raise that error instead of returning any mapping; when every key is
\* present each field is replaced by the property's value.
C9_MissingTemplateKey ==
    /\ call.op = "GetTouchFilename" =>
           LET template == ValueOf(call.props, call.fname_prop)
               refs == Referenced(template)
           IN  IF LacksKey(call.props, call.fname_prop)
               THEN /\ Raised(result)
                    /\ result.exc = "ValueError"
                    /\ result.node_path = call.node_path
                    /\ result.template = SelectSeq(template, LAMBDA c : c # "$")
                    /\ result.properties = key_list(call.props)
                    /\ \E i \in DOMAIN refs :
                           /\ result.lacks = refs[i]
                           /\ refs[i] \notin keys(call.props)
                           /\ \A j \in 1..(i - 1) : refs[j] \in keys(call.props)
               ELSE result = [kind |-> "str", s |-> Filled(template, call.props)]
    /\ call.op = "Model.GetTouchFirmwareFiles" =>
           IF \E device \in DevicesOf(call.self) :
                  \/ LacksKey(TouchProps(call.self, device), FIRMWARE_BIN)
                  \/ LacksKey(TouchProps(call.self, device), FIRMWARE_SYMLINK)
           THEN /\ Raised(result)
                /\ result.exc = "ValueError"
                /\ result.node_path = nodes[call.self].path
           ELSE /\ result.kind = "files"
                /\ DOMAIN result.files = {nodes[device].name : device \in DevicesOf(call.self)}
                /\ \A device \in DevicesOf(call.self) :
                       LET props == TouchProps(call.self, device)
                       IN  result.files[nodes[device].name] =
                               TouchFile(Filled(ValueOf(props, FIRMWARE_BIN), props),
                                         Filled(ValueOf(props, FIRMWARE_SYMLINK), props))

\* a model whose first device yields both file names and whose second device
\* has a template with a missing key: the call raises, nothing is returned
C9_Witness ==
    /\ call.op = "Model.GetTouchFirmwareFiles"
    /\ LET devices == nodes[subnode(call.self, TOUCH)].subnodes
       IN  /\ Len(devices) = 2
           /\ ~LacksKey(TouchProps(call.self, devices[1]), FIRMWARE_BIN)
           /\ ~LacksKey(TouchProps(call.self, devices[1]), FIRMWARE_SYMLINK)
           /\ ~LacksKey(TouchProps(call.self, devices[2]), FIRMWARE_BIN)
           /\ LacksKey(TouchProps(call.self, devices[2]), FIRMWARE_SYMLINK)
    /\ Raised(result)

\* the TouchFile records of all models
AllTouchFiles ==
    UNION {{ModelGetTouchFirmwareFiles(m).files[n] :
                n \in DOMAIN ModelGetTouchFirmwareFiles(m).files} : m \in Range(models)}

\* C6: when every model's touch files resolve, the list
\* CrosConfig.GetTouchFirmwareFiles returns is ascending by firmware, holds no
\* record twice, and holds exactly the records of the models.
C6_SortedUnique ==
    (call.op = "CrosConfig.GetTouchFirmwareFiles"
     /\ \A m \in Range(models) : ~Raised(ModelGetTouchFirmwareFiles(m))) =>
        /\ result.kind = "list"
        /\ \A i, j \in DOMAIN result.items :
               i < j => ~str_lt(result.items[j].firmware, result.items[i].firmware)
        /\ \A i, j \in DOMAIN result.items : i # j => result.items[i] # result.items[j]
        /\ Range(result.items) = AllTouchFiles

\* three devices, two of them with the same record, and a set that was not
\* iterated in ascending order
C6_Witness ==
    /\ call.op = "CrosConfig.GetTouchFirmwareFiles"
    /\ ~Raised(result)
    /\ Len(result.items) = 2
    /\ result.items[1].firmware # result.items[2].firmware
    /\ call.iteration # result.items

=============================================================================
